---- MODULE Spec2Model ----
(***************************************************************************)
(* State-machine model of generate_sequence.py: one run of                 *)
(* GenerateSequenceOfItems(file_path).generate_sequence().                 *)
(*                                                                         *)
(* Text is modelled as sequences of character codes (ASCII), so that       *)
(* formatting, upper-casing and Python's lexicographic string comparison   *)
(* are computed, not assumed.  Python dicts are functions whose DOMAIN is  *)
(* the set of keys present: a KeyError is a key outside the DOMAIN.        *)
(***************************************************************************)
EXTENDS Integers, Sequences, FiniteSets, TLC

\* Bounds of the configurations explored.
MaxDuration == 2
MaxRate == 2

VARIABLES
    file_path,           \* self.file_path (sys.argv[1])
    file,                \* what the filesystem holds at file_path
    starting_timestamp,  \* self.starting_timestamp (datetime.now() at construction)
    pc,                  \* position of the run inside generate_sequence
    config,              \* local config (parsed dict)
    duration,            \* local duration
    rate,                \* local rate
    d,                   \* outer loop variable
    r,                   \* inner loop variable
    id_calculator,       \* local id_calculator
    sequence_list,       \* local sequence_list
    stdout,              \* the records printed so far, one per line
    error                \* the exception that ended the run, if any

vars == <<file_path, file, starting_timestamp, pc, config, duration, rate,
          d, r, id_calculator, sequence_list, stdout, error>>

----------------------------------------------------------------------------
\* Python values.

PyNone == [k |-> "none", n |-> 0, s |-> ""]
PyInt(v) == [k |-> "int", n |-> v, s |-> ""]
PyStr(x) == [k |-> "str", n |-> 0, s |-> x]
PyDict(m) == [k |-> "dict", n |-> 0, s |-> "", items |-> m]
PyList(l) == [k |-> "list", n |-> 0, s |-> "", items |-> l]
Unbound == [k |-> "unbound", n |-> 0, s |-> ""]
EmptyDict == [x \in {} |-> PyNone]

\* Outcome of a call: a returned value or a raised exception.
Ret(v) == [exc |-> "", msg |-> "", val |-> v]
Raise(e, m) == [exc |-> e, msg |-> m, val |-> PyNone]

NoError == [exc |-> "", where |-> "", msg |-> ""]
Failure(e, w, m) == [exc |-> e, where |-> w, msg |-> m]

----------------------------------------------------------------------------
\* Text as character codes.

Min(a, b) == IF a <= b THEN a ELSE b

\* Python str < str: lexicographic by code point, a proper prefix is smaller.
StrLess(a, b) ==
    \/ \E i \in 1..Min(Len(a), Len(b)) :
          /\ a[i] < b[i]
          /\ \A j \in 1..(i - 1) : a[j] = b[j]
    \/ /\ Len(a) < Len(b)
       /\ \A j \in 1..Len(a) : a[j] = b[j]

\* str.upper() on ASCII text.
upper(t) == [i \in 1..Len(t) |-> IF t[i] \in 97..122 THEN t[i] - 32 ELSE t[i]]

\* path.split(".")[-1]: the text after the last ".", the whole text if none.
SplitLast(t) ==
    LET dots == {i \in 1..Len(t) : t[i] = 46}
        from == IF dots = {} THEN 1
                ELSE (CHOOSE i \in dots : \A j \in dots : j <= i) + 1
    IN  SubSeq(t, from, Len(t))

JSON_UPPER == <<74, 83, 79, 78>>

check_file_format(path) ==
    IF upper(SplitLast(path)) # JSON_UPPER THEN FALSE ELSE TRUE

\* bool(self.check_file_format): the condition of parse_config is the bound
\* method itself, not a call of it, and a bound method is always true.
BoundMethodTruth(path) == TRUE

file_exception == "Please provide valid json file."

\* open() + json.load(): any failure is re-raised as Exception(file_exception).
parse_config(path, f) ==
    IF BoundMethodTruth(path)
    THEN IF f.exists /\ f.valid_json
         THEN Ret(f.data)
         ELSE Raise("Exception", file_exception)
    ELSE Raise("Exception", file_exception)

----------------------------------------------------------------------------
\* datetime arithmetic and formatting.

IsLeap(y) == (y % 4 = 0 /\ y % 100 # 0) \/ y % 400 = 0

DaysInMonth(y, m) ==
    IF m = 2 THEN (IF IsLeap(y) THEN 29 ELSE 28)
    ELSE IF m \in {4, 6, 9, 11} THEN 30 ELSE 31

RECURSIVE AddDays(_, _)
AddDays(t, n) ==
    IF n = 0 THEN t
    ELSE IF t.day < DaysInMonth(t.year, t.month)
         THEN AddDays([t EXCEPT !.day = @ + 1], n - 1)
    ELSE IF t.month < 12
         THEN AddDays([t EXCEPT !.day = 1, !.month = @ + 1], n - 1)
    ELSE AddDays([t EXCEPT !.day = 1, !.month = 1, !.year = @ + 1], n - 1)

\* datetime + timedelta(0, secs)
AddSeconds(t, secs) ==
    LET total == (t.hour * 3600) + (t.minute * 60) + t.second + secs
        rest  == total % 86400
        moved == AddDays(t, total \div 86400)
    IN  [moved EXCEPT !.hour = rest \div 3600,
                      !.minute = (rest % 3600) \div 60,
                      !.second = rest % 60]

Pad2(n) == <<48 + ((n \div 10) % 10), 48 + (n % 10)>>
Pad4(n) == <<48 + ((n \div 1000) % 10), 48 + ((n \div 100) % 10)>> \o Pad2(n)

\* strftime("%Y-%d-%m, %H:%M:%S")
strftime(t) ==
    Pad4(t.year) \o <<45>> \o Pad2(t.day) \o <<45>> \o Pad2(t.month)
    \o <<44, 32>> \o Pad2(t.hour) \o <<58>> \o Pad2(t.minute)
    \o <<58>> \o Pad2(t.second)

build_base_dict(id) ==
    LET timestamp == AddSeconds(starting_timestamp, id - 1)
    IN  [id |-> id, timestamp |-> strftime(timestamp)]

----------------------------------------------------------------------------
\* Reading the configuration.

\* int(v) for the JSON values explored: an integer is kept, a non-numeric
\* string raises ValueError, null or an object raises TypeError.
int(v) ==
    CASE v.k = "int" -> Ret(PyInt(v.n))
      [] v.k = "str" -> Raise("ValueError", "")
      [] OTHER       -> Raise("TypeError", "")

\* The except clauses build an Exception and drop it: the call returns None.
get_duration(cfg) ==
    IF "duration" \notin DOMAIN cfg
    THEN Ret(PyNone)
    ELSE LET res == int(cfg.duration)
         IN  IF res.exc = "ValueError" THEN Ret(PyNone) ELSE res

\* config["rate"]["min"], config["rate"]["max"]: subscripting by a string
\* raises KeyError on a dict without the key and TypeError on a non-dict.
RateField(cfg, key) ==
    IF "rate" \notin DOMAIN cfg THEN Raise("KeyError", "")
    ELSE IF cfg.rate.k # "dict" THEN Raise("TypeError", "")
    ELSE IF key \notin DOMAIN cfg.rate.items THEN Raise("KeyError", "")
    ELSE Ret(cfg.rate.items[key])

\* The fallback try: return int(config["rate"]); any exception gives None.
RateFallback(cfg) ==
    IF "rate" \notin DOMAIN cfg THEN {Ret(PyNone)}
    ELSE LET res == int(cfg.rate)
         IN  IF res.exc # "" THEN {Ret(PyNone)} ELSE {res}

\* Mutant of randint: the upper bound is overshot by one.
randint_overshoot(a, b) ==
    IF a > b THEN {Raise("ValueError", "")} ELSE {Ret(PyInt(v)) : v \in a..(b + 1)}

\* random.randint(a, b): any integer of a..b, ValueError on an empty range.
randint(a, b) ==
    IF a > b THEN {Raise("ValueError", "")} ELSE {Ret(PyInt(v)) : v \in a..b}

\* The set of outcomes of get_rate, one per possible random draw.
get_rate(cfg) ==
    LET rate_min == RateField(cfg, "min")
        rate_max == RateField(cfg, "max")
        first == IF rate_min.exc # "" THEN rate_min.exc
                 ELSE IF rate_max.exc # "" THEN rate_max.exc
                 ELSE IF int(rate_min.val).exc # "" THEN int(rate_min.val).exc
                 ELSE IF int(rate_max.val).exc # "" THEN int(rate_max.val).exc
                 ELSE ""
    IN  IF first = "ValueError" THEN {Ret(PyNone)}
        ELSE IF first \in {"KeyError", "TypeError"} THEN RateFallback(cfg)
        ELSE {IF res.exc = "ValueError" THEN Ret(PyNone) ELSE res :
                 res \in randint(int(rate_min.val).val.n, int(rate_max.val).val.n)}

\* Mutant of choice: an empty sequence gives None instead of IndexError.
choice_silent(l) ==
    IF Len(l) = 0 THEN {Ret(PyNone)}
    ELSE {Ret(PyStr(l[i])) : i \in 1..Len(l)}

\* random.choice(seq): any element, IndexError on an empty sequence.
\* (str() of the element is the element: the lists explored hold strings.)
choice(l) ==
    IF Len(l) = 0 THEN {Raise("IndexError", "")}
    ELSE {Ret(PyStr(l[i])) : i \in 1..Len(l)}

\* config["attributes"][name]["values"], then str(random.choice(...)).
\* A missing key at any level is the KeyError that returns None; a value of
\* the wrong shape on the way raises TypeError, which is not caught.
get_attribute(cfg, name) ==
    IF "attributes" \notin DOMAIN cfg THEN {Ret(PyNone)}
    ELSE IF cfg.attributes.k # "dict" THEN {Raise("TypeError", "")}
    ELSE IF name \notin DOMAIN cfg.attributes.items THEN {Ret(PyNone)}
    ELSE IF cfg.attributes.items[name].k # "dict" THEN {Raise("TypeError", "")}
    ELSE IF "values" \notin DOMAIN cfg.attributes.items[name].items
         THEN {Ret(PyNone)}
    ELSE IF cfg.attributes.items[name].items.values.k # "list"
         THEN {Raise("TypeError", "")}
    ELSE choice(cfg.attributes.items[name].items.values.items)

get_colour_attribute(cfg) == get_attribute(cfg, "colour")

get_material_attribute(cfg) == get_attribute(cfg, "material")

\* Truth value of what get_*_attribute returns: None and "" are false.
Truthy(v) == v.k = "str" /\ v.s # ""

----------------------------------------------------------------------------
\* list.sort(key=lambda item: item['timestamp'], reverse=False): stable,
\* ascending by the formatted timestamp text.

RECURSIVE InsertByTimestamp(_, _)
InsertByTimestamp(sorted, item) ==
    IF sorted = <<>> THEN <<item>>
    ELSE IF StrLess(item.timestamp, sorted[Len(sorted)].timestamp)
         THEN Append(InsertByTimestamp(SubSeq(sorted, 1, Len(sorted) - 1), item),
                     sorted[Len(sorted)])
    ELSE Append(sorted, item)

\* Mutant of SortByTimestamp: the list is left in generation order.
SortByTimestamp_unsorted(l) == l

RECURSIVE SortByTimestamp(_)
SortByTimestamp(l) ==
    IF l = <<>> THEN <<>>
    ELSE InsertByTimestamp(SortByTimestamp(SubSeq(l, 1, Len(l) - 1)), l[Len(l)])

----------------------------------------------------------------------------
\* The runs explored: a path, what the filesystem holds there, and the
\* moment the object is constructed.

Path_json == <<97, 46, 106, 115, 111, 110>>       \* "a.json"
Path_JSON == <<97, 46, 74, 83, 79, 78>>           \* "a.JSON"
Path_txt  == <<97, 46, 116, 120, 116>>            \* "a.txt"

At(y, mo, dd, h, mi, sec) ==
    [year |-> y, month |-> mo, day |-> dd, hour |-> h, minute |-> mi, second |-> sec]

MidDay   == At(2023, 6, 15, 10, 30, 0)
DayEnd   == At(2023, 6, 15, 23, 59, 59)
MonthEnd == At(2023, 1, 31, 23, 59, 59)
YearEnd  == At(2023, 12, 31, 23, 59, 59)

Launches ==
    {<<Path_json, t>> : t \in {MidDay, DayEnd, MonthEnd, YearEnd}}
    \cup {<<Path_JSON, MidDay>>, <<Path_txt, MidDay>>}

DurationParts ==
    {EmptyDict, [duration |-> PyNone], [duration |-> PyStr("abc")]}
    \cup {[duration |-> PyInt(v)] : v \in 0..MaxDuration}

RateParts ==
    {EmptyDict, [rate |-> PyNone], [rate |-> PyStr("abc")],
     [rate |-> PyDict([min |-> PyInt(1)])],
     [rate |-> PyDict([min |-> PyStr("abc"), max |-> PyInt(1)])]}
    \cup {[rate |-> PyInt(v)] : v \in 0..MaxRate}
    \cup {[rate |-> PyDict([min |-> PyInt(a), max |-> PyInt(b)])] :
             a \in 0..MaxRate, b \in 0..MaxRate}

Values(l) == PyDict([values |-> PyList(l)])

AttributeParts ==
    {EmptyDict,
     [attributes |-> PyNone],
     [attributes |-> PyDict(EmptyDict)],
     [attributes |-> PyDict([colour |-> PyNone])],
     [attributes |-> PyDict([colour |-> PyDict(EmptyDict)])],
     [attributes |-> PyDict([colour |-> Values(<<>>)])],
     [attributes |-> PyDict([colour |-> Values(<<"">>)])],
     [attributes |-> PyDict([colour |-> Values(<<"red">>)])],
     [attributes |-> PyDict([colour |-> Values(<<"red", "blue">>)])],
     [attributes |-> PyDict([material |-> Values(<<>>)])],
     [attributes |-> PyDict([material |-> Values(<<"">>)])],
     [attributes |-> PyDict([material |-> Values(<<"paper">>)])],
     [attributes |-> PyDict([colour |-> Values(<<"red">>),
                             material |-> Values(<<>>)])],
     [attributes |-> PyDict([colour |-> Values(<<"red">>),
                             material |-> Values(<<"paper">>)])],
     [attributes |-> PyDict([colour |-> Values(<<"red", "blue">>),
                             material |-> Values(<<"paper">>)])]}

Configs ==
    {dp @@ rp @@ ap : dp \in DurationParts, rp \in RateParts, ap \in AttributeParts}

NoFile == [exists |-> FALSE, valid_json |-> FALSE, data |-> EmptyDict]
Malformed == [exists |-> TRUE, valid_json |-> FALSE, data |-> EmptyDict]
JsonFile(cfg) == [exists |-> TRUE, valid_json |-> TRUE, data |-> cfg]

Files == {NoFile, Malformed} \cup {JsonFile(cfg) : cfg \in Configs}

\* __init__, and the locals of generate_sequence not yet bound.
Init ==
    /\ \E l \in Launches : file_path = l[1] /\ starting_timestamp = l[2]
    /\ file \in Files
    /\ pc = "parse_config"
    /\ config = EmptyDict
    /\ duration = Unbound
    /\ rate = Unbound
    /\ d = 0
    /\ r = 0
    /\ id_calculator = 0
    /\ sequence_list = <<>>
    /\ stdout = <<>>
    /\ error = NoError

----------------------------------------------------------------------------
\* The steps of generate_sequence.

Fail(e, w, m) ==
    /\ pc' = "error"
    /\ error' = Failure(e, w, m)

\* config = self.parse_config()
ParseConfig ==
    /\ pc = "parse_config"
    /\ LET res == parse_config(file_path, file)
       IN  IF res.exc = ""
           THEN config' = res.val /\ pc' = "get_duration" /\ error' = error
           ELSE Fail(res.exc, "parse_config", res.msg) /\ config' = config
    /\ UNCHANGED <<file_path, file, starting_timestamp, duration, rate, d, r,
                   id_calculator, sequence_list, stdout>>

\* duration = self.get_duration(config)
GetDuration ==
    /\ pc = "get_duration"
    /\ LET res == get_duration(config)
       IN  IF res.exc = ""
           THEN duration' = res.val /\ pc' = "get_rate" /\ error' = error
           ELSE Fail(res.exc, "get_duration", res.msg) /\ duration' = duration
    /\ UNCHANGED <<file_path, file, starting_timestamp, config, rate, d, r,
                   id_calculator, sequence_list, stdout>>

\* rate = self.get_rate(config)
GetRate ==
    /\ pc = "get_rate"
    /\ \E res \in get_rate(config) : rate' = res.val
    /\ pc' = "enter_loop"
    /\ UNCHANGED <<file_path, file, starting_timestamp, config, duration, d, r,
                   id_calculator, sequence_list, stdout, error>>

\* sequence_list = []; id_calculator = 1; range(duration) is evaluated.
EnterLoop ==
    /\ pc = "enter_loop"
    /\ sequence_list' = <<>>
    /\ id_calculator' = 1
    /\ IF duration.k = "int"
       THEN pc' = "outer" /\ d' = 0 /\ error' = error
       ELSE Fail("TypeError", "generate_sequence", "range(duration)") /\ d' = d
    /\ UNCHANGED <<file_path, file, starting_timestamp, config, duration, rate,
                   r, stdout>>

\* for d in range(duration): a further slot; range(rate) is evaluated.
NextSlot ==
    /\ pc = "outer"
    /\ d < duration.n
    /\ IF rate.k = "int"
       THEN pc' = "inner" /\ r' = 0 /\ error' = error
       ELSE Fail("TypeError", "generate_sequence", "range(rate)") /\ r' = r
    /\ UNCHANGED <<file_path, file, starting_timestamp, config, duration, rate,
                   d, id_calculator, sequence_list, stdout>>

\* Mutant of NextId: the increment is lost.
NextId_stuck(id) == id

\* id_calculator += 1
NextId(id) == id + 1

\* if value: sequence[key] = value
WithField(sequence, key, value) ==
    IF Truthy(value) THEN sequence @@ (key :> value.s) ELSE sequence

\* for r in range(rate): the body of the inner loop, one record.
GenerateRecord ==
    /\ pc = "inner"
    /\ r < rate.n
    /\ id_calculator' = NextId(id_calculator)
    /\ LET sequence == build_base_dict(id_calculator)
       IN  \E colour \in get_colour_attribute(config) :
             IF colour.exc # ""
             THEN /\ Fail(colour.exc, "get_colour_attribute", colour.msg)
                  /\ UNCHANGED <<r, sequence_list>>
             ELSE \E material \in get_material_attribute(config) :
                    IF material.exc # ""
                    THEN /\ Fail(material.exc, "get_material_attribute", material.msg)
                         /\ UNCHANGED <<r, sequence_list>>
                    ELSE /\ sequence_list' =
                              Append(sequence_list,
                                     WithField(WithField(sequence, "colour", colour.val),
                                               "material", material.val))
                         /\ r' = r + 1
                         /\ UNCHANGED <<pc, error>>
    /\ UNCHANGED <<file_path, file, starting_timestamp, config, duration, rate,
                   d, stdout>>

\* range(rate) is exhausted: the slot is complete.
EndSlot ==
    /\ pc = "inner"
    /\ ~(r < rate.n)
    /\ d' = d + 1
    /\ pc' = "outer"
    /\ UNCHANGED <<file_path, file, starting_timestamp, config, duration, rate,
                   r, id_calculator, sequence_list, stdout, error>>

\* range(duration) is exhausted: sequence_list.sort(...)
SortSequence ==
    /\ pc = "outer"
    /\ ~(d < duration.n)
    /\ sequence_list' = SortByTimestamp(sequence_list)
    /\ pc' = "emit"
    /\ UNCHANGED <<file_path, file, starting_timestamp, config, duration, rate,
                   d, r, id_calculator, stdout, error>>

\* Mutant of EmitRecord: records are also printed while the loop still runs.
EmitRecord_streaming ==
    /\ pc \in {"inner", "emit"}
    /\ Len(stdout) < Len(sequence_list)
    /\ stdout' = Append(stdout, sequence_list[Len(stdout) + 1])
    /\ UNCHANGED <<file_path, file, starting_timestamp, pc, config, duration,
                   rate, d, r, id_calculator, sequence_list, error>>

\* print(json.dumps(sequence)): stdout holds the records printed, in order.
EmitRecord ==
    /\ pc = "emit"
    /\ Len(stdout) < Len(sequence_list)
    /\ stdout' = Append(stdout, sequence_list[Len(stdout) + 1])
    /\ UNCHANGED <<file_path, file, starting_timestamp, pc, config, duration,
                   rate, d, r, id_calculator, sequence_list, error>>

\* The print loop is exhausted: generate_sequence returns.
Finish ==
    /\ pc = "emit"
    /\ Len(stdout) = Len(sequence_list)
    /\ pc' = "done"
    /\ UNCHANGED <<file_path, file, starting_timestamp, config, duration, rate,
                   d, r, id_calculator, sequence_list, stdout, error>>

Next ==
    \/ ParseConfig
    \/ GetDuration
    \/ GetRate
    \/ EnterLoop
    \/ NextSlot
    \/ GenerateRecord
    \/ EndSlot
    \/ SortSequence
    \/ EmitRecord
    \/ Finish

Spec == Init /\ [][Next]_vars

----------------------------------------------------------------------------
\* Vocabulary of the properties.

\* The run read a JSON configuration from its file.
Loaded == file.exists /\ file.valid_json

\* The same, from a path with the json extension.
LoadedJson == Loaded /\ check_file_format(file_path)

IsInt(cfg, key) == key \in DOMAIN cfg /\ cfg[key].k = "int"

\* rate is a {min, max} object of two integers.
IsRange(cfg) ==
    /\ "rate" \in DOMAIN cfg
    /\ cfg.rate.k = "dict"
    /\ DOMAIN cfg.rate.items = {"min", "max"}
    /\ cfg.rate.items.min.k = "int"
    /\ cfg.rate.items.max.k = "int"

ValidDuration(cfg) == IsInt(cfg, "duration") /\ cfg.duration.n >= 0

ValidRate(cfg) ==
    \/ IsInt(cfg, "rate") /\ cfg.rate.n >= 0
    \/ IsRange(cfg) /\ 0 <= cfg.rate.items.min.n
                    /\ cfg.rate.items.min.n <= cfg.rate.items.max.n

\* The values a valid rate may resolve to.
RateValues(cfg) ==
    IF IsRange(cfg) THEN cfg.rate.items.min.n .. cfg.rate.items.max.n
    ELSE {cfg.rate.n}

\* rate is missing, is neither an integer nor an object, is an object without
\* min or max, or is a range with min > max.
RateIsError(cfg) ==
    \/ "rate" \notin DOMAIN cfg
    \/ cfg.rate.k \notin {"int", "dict"}
    \/ cfg.rate.k = "dict" /\ ~({"min", "max"} \subseteq DOMAIN cfg.rate.items)
    \/ IsRange(cfg) /\ cfg.rate.items.min.n > cfg.rate.items.max.n

\* attributes.<name>.values is declared as a list.
Declared(cfg, name) ==
    /\ "attributes" \in DOMAIN cfg
    /\ cfg.attributes.k = "dict"
    /\ name \in DOMAIN cfg.attributes.items
    /\ cfg.attributes.items[name].k = "dict"
    /\ "values" \in DOMAIN cfg.attributes.items[name].items
    /\ cfg.attributes.items[name].items.values.k = "list"

DeclaredList(cfg, name) == cfg.attributes.items[name].items.values.items

Elements(l) == {l[i] : i \in 1..Len(l)}

\* Every attribute is either left out or declared as a non-empty list.
AttributesUsable(cfg) ==
    /\ "attributes" \in DOMAIN cfg => cfg.attributes.k = "dict"
    /\ \A name \in {"colour", "material"} :
         ("attributes" \in DOMAIN cfg /\ cfg.attributes.k = "dict"
              /\ name \in DOMAIN cfg.attributes.items)
           => Declared(cfg, name) /\ DeclaredList(cfg, name) # <<>>

EmptyDeclared(cfg) ==
    \E name \in {"colour", "material"} :
        Declared(cfg, name) /\ DeclaredList(cfg, name) = <<>>

\* Non-decreasing: no element is smaller than the one before it.
IsSortedByTimestamp(l) ==
    \A i \in 1..(Len(l) - 1) : ~StrLess(l[i + 1].timestamp, l[i].timestamp)

Occurrences(l, x) == Cardinality({i \in 1..Len(l) : l[i] = x})

IsPermutation(a, b) ==
    /\ Len(a) = Len(b)
    /\ \A i \in 1..Len(a) : Occurrences(a, a[i]) = Occurrences(b, a[i])

\* The moment a record stands for: run start + (id - 1) seconds.
ActualTime(rec) == AddSeconds(starting_timestamp, rec.id - 1)

Chronological(t) == <<t.year, t.month, t.day, t.hour, t.minute, t.second>>

NotEarlier(a, b) == ~StrLess(Chronological(a), Chronological(b))

----------------------------------------------------------------------------
\* C1: for a valid configuration the rate is one value of the configured
\* range (or the plain rate), every completed slot has contributed exactly
\* that many records, and a completed run has printed duration x rate
\* records; with usable attributes the run does not fail.
C1_CountIsDurationTimesRate ==
    (Loaded /\ ValidDuration(file.data) /\ ValidRate(file.data)) =>
        /\ pc \in {"enter_loop", "outer", "inner", "emit", "done"} =>
               rate.k = "int" /\ rate.n \in RateValues(file.data)
        /\ pc = "outer" => Len(sequence_list) = d * rate.n
        /\ pc = "inner" => r <= rate.n /\ Len(sequence_list) = (d * rate.n) + r
        /\ pc \in {"emit", "done"} =>
               Len(sequence_list) = file.data.duration.n * rate.n
        /\ pc = "done" => Len(stdout) = file.data.duration.n * rate.n
        /\ AttributesUsable(file.data) => pc # "error"

\* A completed run over a proper range min < max, two slots of two records.
C1_Witness ==
    /\ pc = "done"
    /\ IsRange(file.data)
    /\ file.data.rate.items.min.n < file.data.rate.items.max.n
    /\ file.data.duration.n = 2
    /\ rate.n = 2
    /\ Len(stdout) = 4

\* C2: while records are generated, the k-th record built has id k and the
\* next id to hand out is one more than the number of records built.
C2_IdsInGenerationOrder ==
    pc \in {"outer", "inner"} =>
        /\ id_calculator = Len(sequence_list) + 1
        /\ \A k \in 1..Len(sequence_list) : sequence_list[k].id = k

\* Inside the second slot, three records built.
C2_Witness ==
    /\ pc = "inner"
    /\ d = 1
    /\ Len(sequence_list) = 3

\* C3: each printed record's actual time is not earlier than the actual time
\* of the record printed before it.
C3_EmittedInTimeOrder ==
    LoadedJson => \A i \in 1..(Len(stdout) - 1) :
        NotEarlier(ActualTime(stdout[i + 1]), ActualTime(stdout[i]))

\* C4: the sort leaves the list sorted non-decreasing by the formatted
\* timestamp and a permutation of the generated list, and each print writes
\* the next record of the sorted list, so that what is printed is that list.
C4_SortedPermutation ==
    [][ /\ (pc = "outer" /\ pc' = "emit") =>
               /\ IsSortedByTimestamp(sequence_list')
               /\ IsPermutation(sequence_list, sequence_list')
        /\ pc' \in {"emit", "done"} =>
               /\ pc \in {"emit", "done"} => sequence_list' = sequence_list
               /\ stdout' = SubSeq(sequence_list', 1, Len(stdout'))
        /\ pc' = "done" => stdout' = sequence_list'
      ]_vars

\* A completed run whose sort moved a record: the first line is not id 1.
C4_Witness ==
    /\ pc = "done"
    /\ Len(stdout) >= 3
    /\ stdout[1].id # 1

\* C5: a run whose path does not end in "json" (any case) fails in
\* parse_config with file_exception, before anything else happens.
C5_BadExtensionFails ==
    ~check_file_format(file_path) =>
        /\ pc \in {"parse_config", "error"}
        /\ pc = "error" =>
               error.where = "parse_config" /\ error.msg = file_exception
        /\ sequence_list = <<>>
        /\ stdout = <<>>

\* C6: a configuration without "duration" makes the run fail in duration
\* resolution with an error naming the missing field, and nothing is printed.
\* (Stated for configurations whose rate is valid, so that only the handling
\* of the missing duration decides it.)
C6_MissingDurationNamed ==
    (LoadedJson /\ "duration" \notin DOMAIN file.data /\ ValidRate(file.data)) =>
        /\ pc # "done"
        /\ stdout = <<>>
        /\ pc = "error" =>
               /\ error.where = "get_duration"
               /\ error.msg = "Missing attribute: \"duration\" is required."

\* C7: a run whose rate is missing, of another shape than an integer or a
\* {min, max} object, or a range with min > max, never completes successfully,
\* whatever its (valid) duration.
C7_InvalidRateFails ==
    (LoadedJson /\ ValidDuration(file.data) /\ RateIsError(file.data)) =>
        pc # "done"

\* C8: nothing is printed by a run that fails, and nothing is printed before
\* the generation loop has run to its end and the list is sorted.
C8_NoPartialOutput ==
    /\ pc = "error" => stdout = <<>>
    /\ stdout # <<>> =>
           /\ pc \in {"emit", "done"}
           /\ ~(d < duration.n)
           /\ IsSortedByTimestamp(sequence_list)

\* A run that failed inside the generation loop, after the first record's
\* colour had been drawn.
C8_Witness ==
    /\ pc = "error"
    /\ error.where = "get_material_attribute"
    /\ Declared(file.data, "colour")
    /\ stdout = <<>>

\* C9: a printed record has the field exactly when the configuration declares
\* the attribute's values, and the value is an element of the declared list.
C9_FieldIffDeclared ==
    LoadedJson =>
        \A i \in 1..Len(stdout) : \A name \in {"colour", "material"} :
            /\ name \in DOMAIN stdout[i] <=> Declared(file.data, name)
            /\ name \in DOMAIN stdout[i] =>
                   stdout[i][name] \in Elements(DeclaredList(file.data, name))

\* C10 as stated: a configuration declaring an empty values list never
\* completes successfully, whatever its (valid) duration and rate.
C10_EmptyListAlwaysFails ==
    (LoadedJson /\ ValidDuration(file.data) /\ ValidRate(file.data)
         /\ EmptyDeclared(file.data)) =>
        pc # "done"

\* C10 amended: with an empty values list declared no record is ever built,
\* and the run completes only if the loop body never ran (duration or the
\* resolved rate is below 1).
C10_EmptyListFailsWhenDrawn ==
    (Loaded /\ EmptyDeclared(file.data)) =>
        /\ sequence_list = <<>>
        /\ stdout = <<>>
        /\ pc = "done" =>
               ~(duration.n >= 1 /\ rate.k = "int" /\ rate.n >= 1)

\* The first draw from the empty list raised IndexError.
C10_Witness ==
    /\ pc = "error"
    /\ error.exc = "IndexError"
    /\ EmptyDeclared(file.data)
    /\ ValidDuration(file.data)
    /\ ValidRate(file.data)
    /\ duration.n >= 1
    /\ rate.n >= 1

====
